---- MODULE Spec2Model ----
(***************************************************************************)
(* A model of pdkit/utils.py: the hysteresis peak/trough scan (peakdet),   *)
(* the positive-to-negative zero-crossing detector, the numerical          *)
(* integration and the configurable autocorrelation (autocorrelate).       *)
(*                                                                         *)
(* One behaviour is one call: Init chooses the function called and its     *)
(* arguments, the actions are the steps of that call.  Floating point      *)
(* numbers are modelled as exact extended rationals [n, d]: d > 0 is the   *)
(* rational n/d in lowest terms, d = 0 is +inf (n = 1), -inf (n = -1) or   *)
(* NaN (n = 0), with IEEE-754 rules for the non-finite values; rounding is *)
(* not modelled.                                                           *)
(***************************************************************************)
EXTENDS Integers, Sequences, FiniteSets

\* ------------------------------------------------------------------ bounds
MaxLen == 4
MaxVal == 2
MaxDelta == 2
MaxRate == 3
MaxArg == 3
AutoMaxLen == 3

Samples == (0 - 1)..MaxVal

RECURSIVE SeqsUpTo(_, _)
SeqsUpTo(S, n) ==
    IF n = 0 THEN {<<>>}
    ELSE LET shorter == SeqsUpTo(S, n - 1)
         IN  shorter \cup {Append(s, e) : s \in {t \in shorter : Len(t) = n - 1}, e \in S}

Signals == SeqsUpTo(Samples, MaxLen)
\* data of autocorrelate: floats (an integer array would make the in-place
\* divisions a casting error), at least one sample
AutoSignals == {s \in SeqsUpTo(Samples, AutoMaxLen) : Len(s) >= 1}
\* the documented example of the zero-crossing detector
CrossingsExample == <<1, 2, 0 - 1, 0 - 2, 3>>
CrossSignals == Signals \cup {CrossingsExample}

\* ------------------------------------------------- floating point numbers
AbsInt(a) == IF a < 0 THEN 0 - a ELSE a
SignInt(a) == IF a < 0 THEN 0 - 1 ELSE IF a > 0 THEN 1 ELSE 0

RECURSIVE GCD(_, _)
GCD(a, b) == IF b = 0 THEN a ELSE GCD(b, a % b)

\* the rational n/d, d # 0, in lowest terms with a positive denominator
Rat(n, d) ==
    LET g == GCD(AbsInt(n), AbsInt(d))
        s == SignInt(d)
    IN  [n |-> (s * n) \div g, d |-> (s * d) \div g]

F(k) == [n |-> k, d |-> 1]
NaN == [n |-> 0, d |-> 0]
PosInf == [n |-> 1, d |-> 0]
NegInf == [n |-> 0 - 1, d |-> 0]
One == F(1)

IsNaN(a) == a.d = 0 /\ a.n = 0
IsInf(a) == a.d = 0 /\ a.n # 0
IsFinite(a) == a.d > 0

\* a < b; every comparison with NaN is false
FLt(a, b) ==
    IF IsNaN(a) \/ IsNaN(b) THEN FALSE
    ELSE IF IsInf(a) \/ IsInf(b)
         THEN (IF IsInf(a) THEN a.n ELSE 0) < (IF IsInf(b) THEN b.n ELSE 0)
         ELSE a.n * b.d < b.n * a.d

FNeg(a) == [n |-> 0 - a.n, d |-> a.d]
FAbs(a) == [n |-> AbsInt(a.n), d |-> a.d]

FAdd(a, b) ==
    IF IsNaN(a) \/ IsNaN(b) THEN NaN
    ELSE IF IsInf(a) /\ IsInf(b) THEN (IF a.n = b.n THEN a ELSE NaN)
    ELSE IF IsInf(a) THEN a
    ELSE IF IsInf(b) THEN b
    ELSE Rat(a.n * b.d + b.n * a.d, a.d * b.d)

FSub(a, b) == FAdd(a, FNeg(b))

FMul(a, b) ==
    IF IsNaN(a) \/ IsNaN(b) THEN NaN
    ELSE IF IsInf(a) \/ IsInf(b)
         THEN (IF a.n = 0 \/ b.n = 0 THEN NaN
               ELSE [n |-> SignInt(a.n) * SignInt(b.n), d |-> 0])
         ELSE Rat(a.n * b.n, a.d * b.d)

\* a / b; a zero divisor is +0.0 (see Linspace and Normalize: every divisor
\* that can be zero is a difference x + (-x) or an absolute value)
FDiv(a, b) ==
    IF IsNaN(a) \/ IsNaN(b) THEN NaN
    ELSE IF IsInf(b) THEN (IF IsInf(a) THEN NaN ELSE F(0))
    ELSE IF IsInf(a) THEN [n |-> a.n * SignInt(b.n + (IF b.n = 0 THEN 1 ELSE 0)), d |-> 0]
    ELSE IF b.n = 0 THEN (IF a.n = 0 THEN NaN ELSE [n |-> SignInt(a.n), d |-> 0])
    ELSE Rat(a.n * b.d, a.d * b.n)

RECURSIVE SumSeq(_)
SumSeq(s) == IF s = <<>> THEN 0 ELSE Head(s) + SumSeq(Tail(s))

\* ------------------------------------------------------------- arguments
\* A Python argument of autocorrelate: None, a bool or an int.
PyNone == [t |-> "None", v |-> 0]
PyBool(b) == [t |-> "bool", v |-> IF b THEN 1 ELSE 0]
PyInt(k) == [t |-> "int", v |-> k]
PyArgs == {PyNone, PyBool(FALSE), PyBool(TRUE)} \cup {PyInt(k) : k \in 0..MaxArg}

\* `if a:` and `a == k` of Python (None is falsy, False == 0, True == 1)
Truthy(a) == a.t # "None" /\ a.v # 0
PyEq(a, k) == a.t # "None" /\ a.v = k

\* delta of peakdet: a scalar, or something np.isscalar rejects
DeltaArgs == {[scalar |-> FALSE, v |-> 0]} \cup {[scalar |-> TRUE, v |-> k] : k \in 0..MaxDelta}

\* np.arange(n) as a sequence
Arange(n) == [k \in 1..n |-> k - 1]

\* x of peakdet: None, or a sequence of positions (here offset sample numbers
\* of the signal's length, or one position short)
XArgs(sig) ==
    {[given |-> FALSE, seq |-> <<>>],
     [given |-> TRUE, seq |-> [k \in 1..Len(sig) |-> k + MaxLen]]}
    \cup (IF Len(sig) >= 1
          THEN {[given |-> TRUE, seq |-> [k \in 1..(Len(sig) - 1) |-> k + MaxLen]]}
          ELSE {})

VARIABLES
    op,           \* the function called
    pc,           \* where the call stands
    signal,       \* signal / data, a sequence of samples
    delta, xarg,  \* peakdet's arguments
    x, i, mn, mx, mnpos, mxpos, lookformax, maxtab, mintab,   \* peakdet's locals
    maxat, minat, \* history: the sample number at which each record was appended
    kind,         \* crossings_nonzero_pos2neg: the type of data
    crossings,    \* its result
    sampling_frequency, integrate,   \* numerical_integration
    unbias, normalize, coefficients, N   \* autocorrelate

peakArgs == <<delta, xarg>>
peakLocals == <<x, i, mn, mx, mnpos, mxpos, lookformax, maxtab, mintab, maxat, minat>>
crossVars == <<kind, crossings>>
integVars == <<sampling_frequency, integrate>>
autoArgs == <<unbias, normalize>>
autoLocals == <<coefficients, N>>
vars == <<op, pc, signal, peakArgs, peakLocals, crossVars, integVars, autoArgs, autoLocals>>

\* ----------------------------------------------------------------- peakdet
PeakIdle ==
    /\ x = <<>> /\ i = 0 /\ mn = NaN /\ mx = NaN /\ mnpos = NaN /\ mxpos = NaN
    /\ lookformax = TRUE /\ maxtab = <<>> /\ mintab = <<>>
    /\ maxat = <<>> /\ minat = <<>>

\* (mutant) a tie replaces the running maximum too: the latest position is kept
UpdatesMaxOnTie(this, curmx) == ~FLt(this, curmx)
\* line 163: the sample replaces the running maximum
UpdatesMax(this, curmx) == FLt(curmx, this)
\* line 166: the sample replaces the running minimum
UpdatesMin(this, curmn) == FLt(this, curmn)

\* lines 163-168: the running extrema after the sample at position pos
TrackExtrema(this, pos) ==
    [mx    |-> IF UpdatesMax(this, mx) THEN this ELSE mx,
     mxpos |-> IF UpdatesMax(this, mx) THEN pos ELSE mxpos,
     mn    |-> IF UpdatesMin(this, mn) THEN this ELSE mn,
     mnpos |-> IF UpdatesMin(this, mn) THEN pos ELSE mnpos]

\* (mutant) the threshold added instead of subtracted
MaxConfirmedSignSlip(this, curmx, d) == FLt(this, FAdd(curmx, d))
\* line 171: the swing below the running maximum confirms it
MaxConfirmed(this, curmx, d) == FLt(this, FSub(curmx, d))
\* line 177: the swing above the running minimum confirms it
MinConfirmed(this, curmn, d) == FLt(FAdd(curmn, d), this)

\* (mutant) the running minimum appended to the maxima
MaxRecordOfMin(t) == <<t.mnpos, t.mn>>
\* line 172 / line 178: the record appended
MaxRecord(t) == <<t.mxpos, t.mx>>
MinRecord(t) == <<t.mnpos, t.mn>>

\* lines 173-174: the running minimum restarts at the confirming sample
AfterMax(t, this, pos) == [t EXCEPT !.mn = this, !.mnpos = pos]
\* (mutant) the running maximum is not restarted
AfterMinNoReset(t, this, pos) == t
\* lines 179-180: the running maximum restarts at the confirming sample
AfterMin(t, this, pos) == [t EXCEPT !.mx = this, !.mxpos = pos]

\* lines 142-159: default positions, the three validations, the initial locals
PeakdetEnter ==
    /\ op = "peakdet" /\ pc = "start"
    /\ LET xs == IF xarg.given THEN xarg.seq ELSE Arange(Len(signal))
       IN  \/ /\ Len(signal) # Len(xs)
              /\ pc' = "exit"
              /\ x' = xs
              /\ UNCHANGED <<mn, mx, mnpos, mxpos>>
           \/ /\ Len(signal) = Len(xs)
              /\ ~delta.scalar
              /\ pc' = "exit"
              /\ x' = xs
              /\ UNCHANGED <<mn, mx, mnpos, mxpos>>
           \/ /\ Len(signal) = Len(xs)
              /\ delta.scalar /\ delta.v <= 0
              /\ pc' = "exit"
              /\ x' = xs
              /\ UNCHANGED <<mn, mx, mnpos, mxpos>>
           \/ /\ Len(signal) = Len(xs)
              /\ delta.scalar /\ delta.v > 0
              /\ pc' = "loop"
              /\ x' = xs
              /\ mn' = PosInf /\ mx' = NegInf
              /\ mnpos' = NaN /\ mxpos' = NaN
    /\ UNCHANGED <<op, signal, peakArgs, i, lookformax, maxtab, mintab, maxat, minat,
                   crossVars, integVars, autoArgs, autoLocals>>

\* lines 161-181: one iteration of the scan, on sample i
PeakdetStep ==
    /\ op = "peakdet" /\ pc = "loop" /\ i < Len(signal)
    /\ LET this == F(signal[i + 1])
           pos  == F(x[i + 1])
           d    == F(delta.v)
           t    == TrackExtrema(this, pos)
       IN  \/ /\ lookformax /\ MaxConfirmed(this, t.mx, d)
              /\ maxtab' = Append(maxtab, MaxRecord(t))
              /\ maxat' = Append(maxat, i)
              /\ LET u == AfterMax(t, this, pos)
                 IN  /\ mn' = u.mn /\ mnpos' = u.mnpos
                     /\ mx' = u.mx /\ mxpos' = u.mxpos
              /\ lookformax' = FALSE
              /\ UNCHANGED <<mintab, minat>>
           \/ /\ lookformax /\ ~MaxConfirmed(this, t.mx, d)
              /\ mn' = t.mn /\ mnpos' = t.mnpos /\ mx' = t.mx /\ mxpos' = t.mxpos
              /\ UNCHANGED <<lookformax, maxtab, mintab, maxat, minat>>
           \/ /\ ~lookformax /\ MinConfirmed(this, t.mn, d)
              /\ mintab' = Append(mintab, MinRecord(t))
              /\ minat' = Append(minat, i)
              /\ LET u == AfterMin(t, this, pos)
                 IN  /\ mn' = u.mn /\ mnpos' = u.mnpos
                     /\ mx' = u.mx /\ mxpos' = u.mxpos
              /\ lookformax' = TRUE
              /\ UNCHANGED <<maxtab, maxat>>
           \/ /\ ~lookformax /\ ~MinConfirmed(this, t.mn, d)
              /\ mn' = t.mn /\ mnpos' = t.mnpos /\ mx' = t.mx /\ mxpos' = t.mxpos
              /\ UNCHANGED <<lookformax, maxtab, mintab, maxat, minat>>
    /\ i' = i + 1
    /\ UNCHANGED <<op, pc, signal, peakArgs, x, crossVars, integVars, autoArgs, autoLocals>>

\* line 183: the scan is over, the two tables are returned
PeakdetReturn ==
    /\ op = "peakdet" /\ pc = "loop" /\ i = Len(signal)
    /\ pc' = "done"
    /\ UNCHANGED <<op, signal, peakArgs, peakLocals, crossVars, integVars, autoArgs, autoLocals>>

\* ----------------------------------------------- crossings_nonzero_pos2neg
DataKinds == {"ndarray", "list", "other"}

\* (mutant) zero counted as positive
PosMaskWithZero(data) == [k \in 1..Len(data) |-> data[k] >= 0]
\* line 288: pos = data > 0
PosMask(data) == [k \in 1..Len(data) |-> data[k] > 0]

\* line 290: pos[:-1] & ~pos[1:]
CrossMask(pos) == [k \in 1..(Len(pos) - 1) |-> pos[k] /\ ~pos[k + 1]]

\* line 290: .nonzero()[0], the indices (from 0) of the true entries, ascending
RECURSIVE Nonzero(_)
Nonzero(mask) ==
    IF mask = <<>> THEN <<>>
    ELSE LET before == Nonzero(SubSeq(mask, 1, Len(mask) - 1))
         IN  IF mask[Len(mask)] THEN Append(before, Len(mask) - 1) ELSE before

\* lines 281-292
CrossingsCall ==
    /\ op = "crossings" /\ pc = "start"
    /\ \/ /\ kind \in {"ndarray", "list"}
          /\ crossings' = Nonzero(CrossMask(PosMask(signal)))
          /\ pc' = "done"
       \/ /\ kind \notin {"ndarray", "list"}
          /\ crossings' = crossings
          /\ pc' = "error"
    /\ UNCHANGED <<op, signal, peakArgs, peakLocals, kind, integVars, autoArgs, autoLocals>>

\* --------------------------------------------------- numerical_integration
\* signal[1:] and signal[:-1]
AllButFirst(s) == SubSeq(s, 2, Len(s))
AllButLast(s) == SubSeq(s, 1, Len(s) - 1)

\* lines 105-106
Integrate(s, r) ==
    LET first == FAdd(FDiv(F(SumSeq(AllButFirst(s))), F(r)), F(SumSeq(AllButLast(s))))
    IN  FDiv(first, FMul(F(r), F(2)))

\* lines 105-108
IntegrationCall ==
    /\ op = "numerical_integration" /\ pc = "start"
    /\ integrate' = Integrate(signal, sampling_frequency)
    /\ pc' = "done"
    /\ UNCHANGED <<op, signal, peakArgs, peakLocals, crossVars, sampling_frequency,
                   autoArgs, autoLocals>>

\* ------------------------------------------------------------ autocorrelate
\* scipy.signal.correlate(data, data, 'full'): entry k (from 1) is the sum of
\* data[l] * data[l - k + n] over the l where both samples exist
Correlate(data) ==
    LET n == Len(data)
    IN  [k \in 1..(2 * n - 1) |->
            F(SumSeq([l \in 1..n |->
                        IF l - k + n \in 1..n THEN data[l] * data[l - k + n] ELSE 0]))]

\* (mutant) the midpoint rounded up
SecondHalfRoundedUp(full) ==
    LET size == (Len(full) + 1) \div 2
    IN  SubSeq(full, size + 1, Len(full))
\* lines 337-338: size = int(coefficients.size / 2); coefficients[size:]
\* (np.int is the builtin int, as in NumPy before 1.24)
SecondHalf(full) ==
    LET size == Len(full) \div 2
    IN  SubSeq(full, size + 1, Len(full))

\* line 344: coefficients /= (N - np.arange(N))
Unbias1(c) == [k \in 1..Len(c) |-> FDiv(c[k], F(Len(c) - (k - 1)))]

\* np.linspace(start, stop, num), num >= 1: arange(num) * step + start, the last
\* entry then set to stop
Linspace(start, stop, num) ==
    LET span == FSub(stop, start)
        step == IF num > 1 THEN FDiv(span, F(num - 1)) ELSE span
    IN  [k \in 1..num |->
            IF num > 1 /\ k = num THEN stop
            ELSE FAdd(FMul(F(k - 1), step), start)]

\* lines 346-347
Unbias2(c) ==
    LET coefficient_ratio == FDiv(c[1], c[Len(c)])
        weights == Linspace(coefficient_ratio, One, Len(c))
    IN  [k \in 1..Len(c) |-> FDiv(c[k], weights[k])]

\* np.max(np.abs(c)): NaN as soon as one entry is NaN
RECURSIVE MaxAbs(_)
MaxAbs(c) ==
    IF Len(c) = 1 THEN FAbs(c[1])
    ELSE LET m == MaxAbs(SubSeq(c, 1, Len(c) - 1))
             a == FAbs(c[Len(c)])
         IN  IF IsNaN(m) \/ IsNaN(a) THEN NaN
             ELSE IF FLt(m, a) THEN a ELSE m

\* (mutant) the division by the lag-0 coefficient itself, not its magnitude
Normalize1Signed(c) == [k \in 1..Len(c) |-> FDiv(c[k], c[1])]
\* line 354: coefficients /= np.abs(coefficients[0])
Normalize1(c) == [k \in 1..Len(c) |-> FDiv(c[k], FAbs(c[1]))]
\* line 356: coefficients /= np.max(np.abs(coefficients))
Normalize2(c) == [k \in 1..Len(c) |-> FDiv(c[k], MaxAbs(c))]

\* lines 336-339
AutocorrelateCorrelate ==
    /\ op = "autocorrelate" /\ pc = "start"
    /\ coefficients' = SecondHalf(Correlate(signal))
    /\ N' = Len(coefficients')
    /\ pc' = "unbias"
    /\ UNCHANGED <<op, signal, peakArgs, peakLocals, crossVars, integVars, autoArgs>>

\* lines 342-349
AutocorrelateUnbias ==
    /\ op = "autocorrelate" /\ pc = "unbias"
    /\ \/ /\ ~Truthy(unbias)
          /\ coefficients' = coefficients
          /\ pc' = "normalize"
       \/ /\ Truthy(unbias) /\ PyEq(unbias, 1)
          /\ coefficients' = Unbias1(coefficients)
          /\ pc' = "normalize"
       \/ /\ Truthy(unbias) /\ ~PyEq(unbias, 1) /\ PyEq(unbias, 2)
          /\ coefficients' = Unbias2(coefficients)
          /\ pc' = "normalize"
       \/ /\ Truthy(unbias) /\ ~PyEq(unbias, 1) /\ ~PyEq(unbias, 2)
          /\ coefficients' = coefficients
          /\ pc' = "error"
    /\ UNCHANGED <<op, signal, peakArgs, peakLocals, crossVars, integVars, autoArgs, N>>

\* lines 352-360
AutocorrelateNormalize ==
    /\ op = "autocorrelate" /\ pc = "normalize"
    /\ \/ /\ ~Truthy(normalize)
          /\ coefficients' = coefficients
          /\ pc' = "done"
       \/ /\ Truthy(normalize) /\ PyEq(normalize, 1)
          /\ coefficients' = Normalize1(coefficients)
          /\ pc' = "done"
       \/ /\ Truthy(normalize) /\ ~PyEq(normalize, 1) /\ PyEq(normalize, 2)
          /\ coefficients' = Normalize2(coefficients)
          /\ pc' = "done"
       \/ /\ Truthy(normalize) /\ ~PyEq(normalize, 1) /\ ~PyEq(normalize, 2)
          /\ coefficients' = coefficients
          /\ pc' = "error"
    /\ UNCHANGED <<op, signal, peakArgs, peakLocals, crossVars, integVars, autoArgs, N>>

\* ------------------------------------------------------------ specification
\* the arguments and locals of the functions not called keep a fixed value
PeakArgsIdle == delta = [scalar |-> TRUE, v |-> 1] /\ xarg = [given |-> FALSE, seq |-> <<>>]

Init ==
    /\ pc = "start"
    /\ PeakIdle
    /\ crossings = <<>> /\ integrate = NaN /\ coefficients = <<>> /\ N = 0
    /\ \/ /\ op = "peakdet"
          /\ signal \in Signals
          /\ delta \in DeltaArgs
          /\ xarg \in XArgs(signal)
          /\ kind = "list" /\ sampling_frequency = 1
          /\ unbias = PyNone /\ normalize = PyNone
       \/ /\ op = "crossings"
          /\ signal \in CrossSignals
          /\ kind \in DataKinds
          /\ PeakArgsIdle /\ sampling_frequency = 1
          /\ unbias = PyNone /\ normalize = PyNone
       \/ /\ op = "numerical_integration"
          /\ signal \in Signals
          /\ sampling_frequency \in 1..MaxRate
          /\ PeakArgsIdle /\ kind = "list"
          /\ unbias = PyNone /\ normalize = PyNone
       \/ /\ op = "autocorrelate"
          /\ signal \in AutoSignals
          /\ unbias \in PyArgs
          /\ normalize \in PyArgs
          /\ PeakArgsIdle /\ kind = "list" /\ sampling_frequency = 1

Next ==
    \/ PeakdetEnter
    \/ PeakdetStep
    \/ PeakdetReturn
    \/ CrossingsCall
    \/ IntegrationCall
    \/ AutocorrelateCorrelate
    \/ AutocorrelateUnbias
    \/ AutocorrelateNormalize

Spec == Init /\ [][Next]_vars

\* ==================================================================== claims
IsPeakdet == op = "peakdet"
DefaultPositions == ~xarg.given
PositiveDelta == delta.scalar /\ delta.v > 0
IsConstant(s) == Len(s) >= 1 /\ \A k \in 1..Len(s) : s[k] = s[1]

\* ----------------------------------------------------------------------- C1
\* C1: for a constant signal of any length >= 1 and any delta > 0, no step of
\* peakdet's scan appends a record: maxtab and mintab stay empty to the end.
C1_ConstantSignalNoPeaks ==
    (IsPeakdet /\ IsConstant(signal) /\ PositiveDelta)
        => (maxtab = <<>> /\ mintab = <<>>)

C1_Witness ==
    /\ IsPeakdet /\ pc = "done" /\ PositiveDelta
    /\ IsConstant(signal) /\ Len(signal) = MaxLen
    /\ maxtab = <<>> /\ mintab = <<>>

\* ----------------------------------------------------------------------- C2
\* the signal is a flat baseline with one sample delta + 1 above it at index k
SpikeAt(k) ==
    /\ Len(signal) >= 2
    /\ k \in 0..(Len(signal) - 1)
    /\ \A j \in 1..Len(signal) :
          j # k + 1 => signal[j] = signal[k + 1] - delta.v - 1

\* the result of peakdet on a spike at index k, as the claim states it
SpikeResult(k) ==
    /\ maxtab = << <<F(k), F(signal[k + 1])>> >>
    /\ Len(mintab) <= 1
    /\ \A m \in 1..Len(mintab) : minat[m] > maxat[1] /\ FLt(F(k), mintab[m][1])

StrictlyAscending(s) == \A a, b \in 1..Len(s) : a < b => s[a] < s[b]
Elements(s) == {s[k] : k \in 1..Len(s)}

\* C3: crossings_nonzero_pos2neg returns, ascending and without duplicates,
\* exactly the indices i in 0..N-2 with signal[i] > 0 and signal[i+1] <= 0;
\* [1, 2, -1, -2, 3] gives [1].
C3_CrossingsExact ==
    (op = "crossings" /\ pc = "done")
        => /\ StrictlyAscending(crossings)
           /\ Elements(crossings) =
                 {j \in 0..(Len(signal) - 2) : signal[j + 1] > 0 /\ signal[j + 2] <= 0}
           /\ signal = CrossingsExample => crossings = <<1>>

C3_Witness ==
    /\ op = "crossings" /\ pc = "done"
    /\ Len(signal) = MaxLen
    /\ signal[1] > 0 /\ signal[2] = 0 /\ signal[3] > 0 /\ signal[4] < 0
    /\ crossings = <<0, 2>>

\* ----------------------------------------------------------------------- C4
\* C4 as stated: for a constant signal of value c and length N >= 1 and a
\* sampling rate r > 0, numerical_integration returns c * (N - 1) / r.
C4_ConstantIntegral ==
    (op = "numerical_integration" /\ pc = "done" /\ IsConstant(signal))
        => integrate = Rat(signal[1] * (Len(signal) - 1), sampling_frequency)

\* ----------------------------------------------------------------------- C5
IsAutocorrelate == op = "autocorrelate"
Lag0NonZero == \E k \in 1..Len(signal) : signal[k] # 0
DocumentedPolicy(a) == a \in {PyNone, PyInt(1), PyInt(2)}

\* the lag-0 coefficient is a maximum-magnitude coefficient of c
Lag0IsMaxMagnitude(c) ==
    /\ ~IsNaN(c[1])
    /\ \A k \in 1..Len(c) : ~IsNaN(c[k]) /\ ~FLt(FAbs(c[1]), FAbs(c[k]))

AllFinite(c) == \A k \in 1..Len(c) : IsFinite(c[k])

C6_InvalidPolicyRejected ==
    (IsAutocorrelate /\ (~DocumentedPolicy(unbias) \/ ~DocumentedPolicy(normalize)))
        => pc # "done"

\* ----------------------------------------------------------------------- C7
\* the correlation at lag k, from its definition
LagSum(k) ==
    SumSeq([l \in 1..(Len(signal) - k) |-> signal[l] * signal[l + k]])

\* C7 as stated: with size = 2n - 1 the length of the full correlation,
\* autocorrelate returns N = floor(size / 2) coefficients.
C7_FloorHalf ==
    (IsAutocorrelate /\ pc \in {"unbias", "normalize", "done"})
        => /\ N = (2 * Len(signal) - 1) \div 2
           /\ Len(coefficients) = N

\* C7 amended: autocorrelate keeps the second half of the full correlation and
\* returns N = size - floor(size / 2) = n coefficients, one per lag 0..n-1 (the
\* raw coefficient k is the correlation at lag k); N is the number returned.
C7_CeilHalf ==
    (IsAutocorrelate /\ pc \in {"unbias", "normalize", "done"})
        => /\ N = (2 * Len(signal) - 1) - ((2 * Len(signal) - 1) \div 2)
           /\ N = Len(signal)
           /\ Len(coefficients) = N
           /\ pc = "unbias" => \A k \in 0..(N - 1) : coefficients[k + 1] = F(LagSum(k))

C7_Witness ==
    /\ IsAutocorrelate /\ pc = "done"
    /\ Len(signal) = AutoMaxLen
    /\ N = AutoMaxLen /\ Len(coefficients) = AutoMaxLen

\* ----------------------------------------------------------------------- C8
RecordPositions == {maxtab[k][1] : k \in 1..Len(maxtab)} \cup {mintab[k][1] : k \in 1..Len(mintab)}

\* C8 as stated: for delta > 0 neither the first nor the last sample is ever
\* emitted by peakdet, as a maximum or as a minimum (default positions: the
\* position of a record is its sample's index).
C8_EndsNeverEmitted ==
    (IsPeakdet /\ PositiveDelta /\ DefaultPositions /\ Len(signal) >= 1)
        => /\ F(0) \notin RecordPositions
           /\ F(Len(signal) - 1) \notin RecordPositions

\* ----------------------------------------------------------------------- C9
\* the first sample of the window the k-th maximum / minimum was tracked over
MaxWindowStart(k) == IF k = 1 THEN 0 ELSE minat[k - 1]
MinWindowStart(k) == maxat[k]

\* C9: every maximum (p, v), appended at the step on sample i, has v the largest
\* sample since the step that confirmed the previous minimum (inclusive; since
\* the start if none), p the earliest position of v in that window, v the
\* sample at p, and signal[i] < v - delta; symmetrically every minimum is the
\* smallest sample since the step that confirmed the previous maximum, at its
\* earliest position, and signal[i] > minimum + delta.
C9_EmittedExtremaAreWindowExtrema ==
    (IsPeakdet /\ pc \in {"loop", "done"})
        => /\ Len(maxat) = Len(maxtab) /\ Len(minat) = Len(mintab)
           /\ \A k \in 1..Len(maxtab) :
                 \E j \in MaxWindowStart(k)..maxat[k] :
                    /\ maxtab[k] = <<F(x[j + 1]), F(signal[j + 1])>>
                    /\ \A l \in MaxWindowStart(k)..maxat[k] : signal[l + 1] <= signal[j + 1]
                    /\ \A l \in MaxWindowStart(k)..(j - 1) : signal[l + 1] < signal[j + 1]
                    /\ signal[maxat[k] + 1] < signal[j + 1] - delta.v
           /\ \A k \in 1..Len(mintab) :
                 \E j \in MinWindowStart(k)..minat[k] :
                    /\ mintab[k] = <<F(x[j + 1]), F(signal[j + 1])>>
                    /\ \A l \in MinWindowStart(k)..minat[k] : signal[l + 1] >= signal[j + 1]
                    /\ \A l \in MinWindowStart(k)..(j - 1) : signal[l + 1] > signal[j + 1]
                    /\ signal[minat[k] + 1] > signal[j + 1] + delta.v

\* a maximum whose value occurs twice in its window, and a minimum after it
C9_Witness ==
    /\ IsPeakdet /\ pc = "done"
    /\ Len(maxtab) >= 1 /\ Len(mintab) >= 1
    /\ \E l \in 1..Len(signal) :
          /\ l - 1 < maxat[1]
          /\ F(l - 1) # maxtab[1][1]
          /\ F(signal[l]) = maxtab[1][2]

\* ---------------------------------------------------------------------- C10
\* C10: the records alternate, a maximum first: after every step the number of
\* maxima minus the number of minima is 0 or 1, the mode is 'look for max'
\* exactly when they are equal, no sample appends more than one record, and
\* with default positions the k-th maximum lies before the k-th minimum, which
\* lies before the (k+1)-th maximum.
C10_Alternation ==
    IsPeakdet
        => /\ Len(maxtab) - Len(mintab) \in {0, 1}
           /\ lookformax <=> Len(maxtab) = Len(mintab)
           /\ Len(maxtab) + Len(mintab) <= i
           /\ \A a \in 1..Len(maxat), b \in 1..Len(minat) : maxat[a] # minat[b]
           /\ StrictlyAscending(maxat) /\ StrictlyAscending(minat)
           /\ DefaultPositions =>
                 \A k \in 1..Len(mintab) :
                    /\ FLt(maxtab[k][1], mintab[k][1])
                    /\ k + 1 <= Len(maxtab) => FLt(mintab[k][1], maxtab[k + 1][1])

C10_Witness ==
    /\ IsPeakdet /\ pc = "done" /\ DefaultPositions
    /\ Len(maxtab) = 2 /\ Len(mintab) = 1
    /\ ~lookformax

====
